---- MODULE Spec2Model ----
(***************************************************************************)
(* Model of src/main.py: the PlaywrightDriver wrapper (navigate, click,    *)
(* type_text, get_text, wait_for_selector, _take_screenshot, __enter__,    *)
(* __exit__), the SauceDemoTask workflow (execute, _login,                 *)
(* _get_product_price) and main().                                         *)
(*                                                                         *)
(* The browser engine is the environment.  What a page primitive does on   *)
(* a given call (return, raise a Playwright TimeoutError, raise another    *)
(* Exception) is an input of the call, held in env.  Strings the program   *)
(* edits character by character (selectors, screenshot labels) are         *)
(* sequences of one-character strings.                                     *)
(*                                                                         *)
(* Spec        one run of main().                                          *)
(* SpecDriver  calls of single driver operations, with any selector and    *)
(*             any retry count, on an open session.                        *)
(***************************************************************************)
EXTENDS Integers, Sequences, FiniteSets

\* ------------------------------------------------------------- bounds
MaxRetry == 3
MaxNegRetry == 1
MaxItems == 2

\* ---------------------------------------------------- program constants
DefaultRetry == 3

None == "None"
PyTrue == "True"
PyFalse == "False"
NoElem == "NoElem"

base_url == "https://www.saucedemo.com"
product_name == "Sauce Labs Backpack"
OtherName == "Sauce Labs Bike Light"

UserNameSel == <<"#", "u", "s", "e", "r", "-", "n", "a", "m", "e">>
PasswordSel == <<"#", "p", "a", "s", "s", "w", "o", "r", "d">>
LoginButtonSel == <<"#", "l", "o", "g", "i", "n", "-", "b", "u", "t", "t", "o", "n">>
InventoryListSel == <<".", "i", "n", "v", "e", "n", "t", "o", "r", "y", "_", "l", "i", "s", "t">>
OddSel == <<"#", "a", " ", ".", "b", ">", "c">>

LabelNavigationError == <<"n", "a", "v", "i", "g", "a", "t", "i", "o", "n", "_", "e", "r", "r", "o", "r">>
LabelClickTimeout == <<"c", "l", "i", "c", "k", "_", "t", "i", "m", "e", "o", "u", "t", "_">>
LabelClickError == <<"c", "l", "i", "c", "k", "_", "e", "r", "r", "o", "r">>
LabelTypeTimeout == <<"t", "y", "p", "e", "_", "t", "i", "m", "e", "o", "u", "t">>
LabelTypeError == <<"t", "y", "p", "e", "_", "e", "r", "r", "o", "r">>
LabelGetTextTimeout == <<"g", "e", "t", "_", "t", "e", "x", "t", "_", "t", "i", "m", "e", "o", "u", "t">>
LabelGetTextError == <<"g", "e", "t", "_", "t", "e", "x", "t", "_", "e", "r", "r", "o", "r">>
LabelWaitTimeout == <<"w", "a", "i", "t", "_", "t", "i", "m", "e", "o", "u", "t">>
LabelProductSearchError == <<"p", "r", "o", "d", "u", "c", "t", "_", "s", "e", "a", "r", "c", "h", "_", "e", "r", "r", "o", "r">>

MsgNavigate == "Failed to navigate to website"
MsgLogin == "Login failed"
MsgNotFound == "Failed to find product: Sauce Labs Backpack"
MsgFound == "Successfully found product: Sauce Labs Backpack"

\* ------------------------------------------------- environment inputs
\* What one attempt of a retrying operation meets: the visibility wait
\* returns and the action returns ("ok"), or one of the two raises.
AttemptOutcomes == {"ok", "wait_timeout", "wait_error", "act_timeout", "act_error"}
\* What a single page primitive does.
PrimitiveOutcomes == {"ok", "timeout", "error"}
ShotOutcomes == {"ok", "error"}
HttpStatuses == {200, 503}
Texts == {"$29.99", "", None}
Selectors == {UserNameSel, InventoryListSel, OddSel}
RetryOps == {"click", "type_text", "get_text"}
SingleOps == {"navigate", "wait_for_selector"}

Max0(n) == IF n > 0 THEN n ELSE 0

Envs(operation, n) ==
    [att : [1..Max0(n) -> IF operation \in RetryOps THEN AttemptOutcomes
                                                     ELSE PrimitiveOutcomes],
     shot : ShotOutcomes,
     status : IF operation = "navigate" THEN HttpStatuses ELSE {0},
     text : IF operation = "get_text" THEN Texts ELSE {None}]

NoEnv == [att |-> <<>>, shot |-> "ok", status |-> 0, text |-> None]

ItemNames == {product_name, OtherName, NoElem}
ItemPrices == {"$29.99", "$9.99", "", None, NoElem}
Items == [name : ItemNames, price : ItemPrices]
Collections == UNION {[1..n -> Items] : n \in 0..MaxItems}

\* ------------------------------------------------------------- helpers
Replace(s, c) == SelectSeq(s, LAMBDA x : x # c)

IsTimeout(o) == o \in {"wait_timeout", "act_timeout", "timeout"}

\* The page primitives one attempt issues: the action is reached only when
\* the visibility wait returned.
AttemptCalls(o, act) ==
    IF o \in {"wait_timeout", "wait_error"} THEN <<"wait_for_selector">>
    ELSE <<"wait_for_selector", act>>

Count(tr, c) == Len(SelectSeq(tr, LAMBDA x : x = c))

VARIABLES
    pc,         \* position of main() / execute() / _login()
    session,    \* playwright, browser, context, page handles of the driver
    status,     \* of the driver operation: idle, running, returned, raised
    op,         \* the driver operation called last
    sel,        \* its selector
    retry,      \* its retry argument
    attempt,    \* position of the iterator of range(retry)
    env,        \* what the page does during this call
    ret,        \* the value the operation returned
    response,   \* HTTP status of the response page.goto returned, 0 if none
    exc,        \* the exception propagating, "none" when there is none
    optrace,    \* page primitives issued by the current operation, in order
    shotNames,  \* labels passed to _take_screenshot during the run, in order
    steps,      \* driver operations the workflow called, in order
    items,      \* the collection query_selector_all returned
    scanned,    \* how _get_product_price ended: none, found, notfound, raised
    price,      \* the value _get_product_price returned
    result,     \* the dict execute() builds
    released,   \* release calls __exit__ issued, in order
    rc,         \* value of the return statement inside the with block
    exitCode    \* value main() returned, -1 while it runs

frame == <<status, op, sel, retry, attempt, env, ret, optrace>>
task == <<response, steps, items, scanned, price, result>>
proc == <<pc, session, released, rc, exitCode>>
vars == <<pc, session, status, op, sel, retry, attempt, env, ret, response, exc, optrace,
          shotNames, steps, items, scanned, price, result, released, rc, exitCode>>

\* ============================================================ driver

\* f"screenshot_{name}_{datetime.now().strftime('%Y%m%d_%H%M%S')}.png":
\* the label goes into the file name as it is, ts being the formatted time.
FilePrefix == <<"s", "c", "r", "e", "e", "n", "s", "h", "o", "t", "_">>
FileSuffix == <<".", "p", "n", "g">>
Timestamp == <<"2", "0", "2", "6", "1", "1", "0", "2", "_", "1", "1", "4", "5", "0", "0">>
Filename(name, ts) == FilePrefix \o name \o <<"_">> \o ts \o FileSuffix

\* _take_screenshot without its try / except: a capture that raises goes up.
_take_screenshot_propagates(o) == IF o = "ok" THEN "saved" ELSE "raised"

\* _take_screenshot: the whole body is inside try / except Exception, so a
\* capture that raises is logged and the routine returns normally.
_take_screenshot(o) == IF o = "ok" THEN "saved" ELSE "logged"

\* if attempt == 0
IsLastAttempt_first(i, n) == i = 0

\* The handlers without the test of the attempt number.
IsLastAttempt_always(i, n) == TRUE

\* if attempt == retry - 1
IsLastAttempt(i, n) == i = n - 1

\* A call of a driver operation: the frame of the callee.
Call(operation, selector, n, e) ==
    /\ status' = "running"
    /\ op' = operation
    /\ sel' = selector
    /\ retry' = n
    /\ attempt' = 0
    /\ env' = e
    /\ ret' = None
    /\ optrace' = <<>>

\* An except handler of a retrying operation: on the last attempt it calls
\* _take_screenshot(label); then the loop goes on.
Handler(i, calls, label) ==
    IF IsLastAttempt(i, retry)
    THEN /\ shotNames' = Append(shotNames, label)
         /\ optrace' = optrace \o calls \o <<"screenshot">>
         /\ IF _take_screenshot(env.shot) = "raised"
            THEN status' = "raised" /\ exc' = "Exception"
            ELSE UNCHANGED <<status, exc>>
    ELSE /\ optrace' = optrace \o calls
         /\ UNCHANGED <<shotNames, status, exc>>

\* navigate with a second page load after a failed one.
navigate_retrying ==
    /\ status = "running" /\ op = "navigate"
    /\ LET o == env.att[1] IN
       IF o = "ok"
       THEN /\ optrace' = optrace \o <<"goto">>
            /\ status' = "returned" /\ ret' = PyTrue
            /\ UNCHANGED <<shotNames, exc>>
       ELSE IF attempt = 0
       THEN /\ optrace' = optrace \o <<"goto">>
            /\ UNCHANGED <<shotNames, status, ret, exc>>
       ELSE /\ optrace' = optrace \o <<"goto", "screenshot">>
            /\ shotNames' = Append(shotNames, LabelNavigationError)
            /\ status' = "returned" /\ ret' = PyFalse /\ UNCHANGED exc
    /\ response' = IF env.att[1] = "ok" THEN env.status ELSE 0
    /\ attempt' = attempt + 1
    /\ UNCHANGED <<op, sel, retry, env, steps, items, scanned, price, result, proc>>

\* PlaywrightDriver.navigate
navigate ==
    /\ status = "running" /\ op = "navigate"
    /\ LET o == env.att[1] IN
       IF o = "ok"
       THEN /\ optrace' = optrace \o <<"goto">>
            /\ status' = "returned" /\ ret' = PyTrue
            /\ UNCHANGED <<shotNames, exc>>
       ELSE /\ optrace' = optrace \o <<"goto", "screenshot">>
            /\ shotNames' = Append(shotNames, LabelNavigationError)
            /\ IF _take_screenshot(env.shot) = "raised"
               THEN status' = "raised" /\ exc' = "Exception" /\ UNCHANGED ret
               ELSE status' = "returned" /\ ret' = PyFalse /\ UNCHANGED exc
    /\ response' = IF env.att[1] = "ok" THEN env.status ELSE 0
    /\ attempt' = attempt + 1
    /\ UNCHANGED <<op, sel, retry, env, steps, items, scanned, price, result, proc>>

\* click without the return True of a successful attempt.
click_attempt_noreturn ==
    /\ status = "running" /\ op = "click" /\ attempt < retry
    /\ LET o == env.att[attempt + 1]
           calls == AttemptCalls(o, "click")
       IN  IF o = "ok"
           THEN /\ optrace' = optrace \o calls
                /\ UNCHANGED <<status, ret, shotNames, exc>>
           ELSE /\ Handler(attempt, calls,
                           IF IsTimeout(o)
                           THEN LabelClickTimeout \o Replace(Replace(sel, "#"), ".")
                           ELSE LabelClickError)
                /\ UNCHANGED ret
    /\ attempt' = attempt + 1
    /\ UNCHANGED <<op, sel, retry, env, task, proc>>

\* PlaywrightDriver.click: one iteration of the loop
click_attempt ==
    /\ status = "running" /\ op = "click" /\ attempt < retry
    /\ LET o == env.att[attempt + 1]
           calls == AttemptCalls(o, "click")
       IN  IF o = "ok"
           THEN /\ optrace' = optrace \o calls
                /\ status' = "returned" /\ ret' = PyTrue
                /\ UNCHANGED <<shotNames, exc>>
           ELSE /\ Handler(attempt, calls,
                           IF IsTimeout(o)
                           THEN LabelClickTimeout \o Replace(Replace(sel, "#"), ".")
                           ELSE LabelClickError)
                /\ UNCHANGED ret
    /\ attempt' = attempt + 1
    /\ UNCHANGED <<op, sel, retry, env, task, proc>>

\* click with the screenshot taken after the loop instead of in the handlers.
click_exhausted_shot ==
    /\ status = "running" /\ op = "click" /\ attempt >= retry
    /\ status' = "returned" /\ ret' = PyFalse
    /\ shotNames' = Append(shotNames, LabelClickError)
    /\ optrace' = Append(optrace, "screenshot")
    /\ UNCHANGED <<op, sel, retry, attempt, env, exc, task, proc>>

\* PlaywrightDriver.click: the loop is over
click_exhausted ==
    /\ status = "running" /\ op = "click" /\ attempt >= retry
    /\ status' = "returned" /\ ret' = PyFalse
    /\ UNCHANGED <<op, sel, retry, attempt, env, exc, optrace, shotNames, task, proc>>

\* PlaywrightDriver.type_text: one iteration of the loop
type_text_attempt ==
    /\ status = "running" /\ op = "type_text" /\ attempt < retry
    /\ LET o == env.att[attempt + 1]
           calls == AttemptCalls(o, "fill")
       IN  IF o = "ok"
           THEN /\ optrace' = optrace \o calls
                /\ status' = "returned" /\ ret' = PyTrue
                /\ UNCHANGED <<shotNames, exc>>
           ELSE /\ Handler(attempt, calls,
                           IF IsTimeout(o) THEN LabelTypeTimeout ELSE LabelTypeError)
                /\ UNCHANGED ret
    /\ attempt' = attempt + 1
    /\ UNCHANGED <<op, sel, retry, env, task, proc>>

\* PlaywrightDriver.type_text: the loop is over
type_text_exhausted ==
    /\ status = "running" /\ op = "type_text" /\ attempt >= retry
    /\ status' = "returned" /\ ret' = PyFalse
    /\ UNCHANGED <<op, sel, retry, attempt, env, exc, optrace, shotNames, task, proc>>

\* PlaywrightDriver.get_text: one iteration of the loop
get_text_attempt ==
    /\ status = "running" /\ op = "get_text" /\ attempt < retry
    /\ LET o == env.att[attempt + 1]
           calls == AttemptCalls(o, "text_content")
       IN  IF o = "ok"
           THEN /\ optrace' = optrace \o calls
                /\ status' = "returned" /\ ret' = env.text
                /\ UNCHANGED <<shotNames, exc>>
           ELSE /\ Handler(attempt, calls,
                           IF IsTimeout(o) THEN LabelGetTextTimeout ELSE LabelGetTextError)
                /\ UNCHANGED ret
    /\ attempt' = attempt + 1
    /\ UNCHANGED <<op, sel, retry, env, task, proc>>

\* PlaywrightDriver.get_text: the loop is over
get_text_exhausted ==
    /\ status = "running" /\ op = "get_text" /\ attempt >= retry
    /\ status' = "returned" /\ ret' = None
    /\ UNCHANGED <<op, sel, retry, attempt, env, exc, optrace, shotNames, task, proc>>

\* PlaywrightDriver.wait_for_selector: only PlaywrightTimeout is caught
wait_for_selector ==
    /\ status = "running" /\ op = "wait_for_selector"
    /\ LET o == env.att[1] IN
       CASE o = "ok" ->
              /\ optrace' = optrace \o <<"wait_for_selector">>
              /\ status' = "returned" /\ ret' = PyTrue
              /\ UNCHANGED <<shotNames, exc>>
         [] o = "timeout" ->
              /\ optrace' = optrace \o <<"wait_for_selector", "screenshot">>
              /\ shotNames' = Append(shotNames, LabelWaitTimeout)
              /\ IF _take_screenshot(env.shot) = "raised"
                 THEN status' = "raised" /\ exc' = "Exception" /\ UNCHANGED ret
                 ELSE status' = "returned" /\ ret' = PyFalse /\ UNCHANGED exc
         [] OTHER ->
              /\ optrace' = optrace \o <<"wait_for_selector">>
              /\ status' = "raised" /\ exc' = "Exception"
              /\ UNCHANGED <<shotNames, ret>>
    /\ attempt' = attempt + 1
    /\ UNCHANGED <<op, sel, retry, env, task, proc>>

\* A caller of the driver: one operation, any selector, any retry count,
\* any behaviour of the page.
DriverCall ==
    /\ pc = "harness" /\ status = "idle"
    /\ \E operation \in RetryOps \cup SingleOps, selector \in Selectors :
         \E n \in (IF operation \in RetryOps THEN (-MaxNegRetry)..MaxRetry ELSE {1}) :
           \E e \in Envs(operation, n) :
              Call(operation, selector, n, e)
    /\ exc' = "none"
    /\ shotNames' = <<>>
    /\ UNCHANGED <<task, proc>>

OpenSession == [playwright |-> "open", browser |-> "open", context |-> "open", page |-> "open"]
NoSession == [playwright |-> "none", browser |-> "none", context |-> "none", page |-> "none"]
EmptyData == [k \in {} |-> ""]

InitCommon ==
    /\ status = "idle" /\ op = "none" /\ sel = <<>> /\ retry = 0 /\ attempt = 0
    /\ env = NoEnv /\ ret = None /\ response = 0 /\ exc = "none" /\ optrace = <<>>
    /\ shotNames = <<>> /\ steps = <<>> /\ items = <<>> /\ scanned = "none" /\ price = None
    /\ result = [success |-> FALSE, message |-> "", data |-> EmptyData]
    /\ released = <<>> /\ rc = -1 /\ exitCode = -1

InitDriver == pc = "harness" /\ session = OpenSession /\ InitCommon

NextDriver ==
    \/ DriverCall
    \/ navigate
    \/ click_attempt
    \/ click_exhausted
    \/ type_text_attempt
    \/ type_text_exhausted
    \/ get_text_attempt
    \/ get_text_exhausted
    \/ wait_for_selector

SpecDriver == InitDriver /\ [][NextDriver]_vars

\* ============================================================ workflow

BodyPcs == {"execute", "navigate", "login_user", "login_pass", "login_click",
            "login_wait", "scan", "build", "report"}

\* if price is not None
Truthy_not_none(v) == v # None

\* if price: -- None and the empty string are falsy
Truthy(v) == v \notin {None, ""}

\* The for loop of _get_product_price from item i on; an element call on
\* item r raises.  An item is returned only when its name element exists,
\* its text equals the target and its price element exists.
RECURSIVE ScanFrom(_, _, _)
ScanFrom(coll, i, r) ==
    IF i > Len(coll) THEN [kind |-> "notfound", price |-> None]
    ELSE IF i = r THEN [kind |-> "raised", price |-> None]
    ELSE IF coll[i].name # NoElem /\ coll[i].name = product_name
            /\ coll[i].price # NoElem
         THEN [kind |-> "found", price |-> coll[i].price]
         ELSE ScanFrom(coll, i + 1, r)

\* __enter__ that swallows the exception of a failed acquisition step and
\* returns the driver.
__enter___swallowing ==
    /\ pc = "start"
    /\ \E failAt \in 0..4 :
         session' = [playwright |-> IF failAt = 1 THEN "none" ELSE "open",
                     browser |-> IF failAt \in {1, 2} THEN "none" ELSE "open",
                     context |-> IF failAt \in {1, 2, 3} THEN "none" ELSE "open",
                     page |-> IF failAt \in {1, 2, 3, 4} THEN "none" ELSE "open"]
    /\ pc' = "execute"
    /\ UNCHANGED <<frame, exc, shotNames, task, released, rc, exitCode>>

\* PlaywrightDriver.__enter__, entered by the with statement of main():
\* acquisition step failAt raises (0: none does).  When __enter__ raises,
\* the with statement does not call __exit__.
__enter__ ==
    /\ pc = "start"
    /\ \E failAt \in 0..4, kind \in {"Exception", "KeyboardInterrupt"} :
         /\ session' = [playwright |-> IF failAt = 1 THEN "none" ELSE "open",
                        browser |-> IF failAt \in {1, 2} THEN "none" ELSE "open",
                        context |-> IF failAt \in {1, 2, 3} THEN "none" ELSE "open",
                        page |-> IF failAt \in {1, 2, 3, 4} THEN "none" ELSE "open"]
         /\ IF failAt = 0
            THEN pc' = "execute" /\ UNCHANGED exc
            ELSE pc' = "except" /\ exc' = kind
    /\ UNCHANGED <<frame, shotNames, task, released, rc, exitCode>>

\* SauceDemoTask.execute: builds result and calls navigate
execute_navigate ==
    /\ pc = "execute"
    /\ result' = [success |-> FALSE, message |-> "", data |-> EmptyData]
    /\ \E e \in Envs("navigate", 1) : Call("navigate", <<>>, 1, e)
    /\ steps' = Append(steps, "navigate")
    /\ pc' = "navigate"
    /\ UNCHANGED <<session, response, exc, shotNames, items, scanned, price, released, rc, exitCode>>

\* A step of _login that does not test what the call before it returned.
Step_unchecked(msg, operation, selector, name, there) ==
    /\ \E e \in Envs(operation, DefaultRetry) :
          Call(operation, selector, DefaultRetry, e)
    /\ steps' = Append(steps, name)
    /\ pc' = there
    /\ UNCHANGED result
    /\ UNCHANGED <<session, response, exc, shotNames, items, scanned, price, released, rc, exitCode>>

\* A step of the workflow, the driver call before it having returned: when
\* that call reports failure the workflow returns result with message msg,
\* otherwise it calls the next operation and moves to position there.
Step(msg, operation, selector, name, there) ==
    /\ IF ret = PyFalse
       THEN /\ result' = [result EXCEPT !.message = msg]
            /\ pc' = "report"
            /\ UNCHANGED <<frame, steps>>
       ELSE /\ \E e \in Envs(operation, DefaultRetry) :
                 Call(operation, selector, DefaultRetry, e)
            /\ steps' = Append(steps, name)
            /\ pc' = there
            /\ UNCHANGED result
    /\ UNCHANGED <<session, response, exc, shotNames, items, scanned, price, released, rc, exitCode>>

\* execute: if not navigate(...); _login: type_text("#user-name", ...)
login_username ==
    /\ pc = "navigate" /\ status = "returned"
    /\ Step(MsgNavigate, "type_text", UserNameSel, "type_user", "login_user")

\* _login: if not type_text("#user-name"); type_text("#password", ...)
login_password ==
    /\ pc = "login_user" /\ status = "returned"
    /\ Step(MsgLogin, "type_text", PasswordSel, "type_pass", "login_pass")

\* _login: if not type_text("#password"); click("#login-button")
login_click ==
    /\ pc = "login_pass" /\ status = "returned"
    /\ Step(MsgLogin, "click", LoginButtonSel, "click_login", "login_click")

\* _login: if not click("#login-button"); wait_for_selector(".inventory_list")
login_wait ==
    /\ pc = "login_click" /\ status = "returned"
    /\ IF ret = PyFalse
       THEN /\ result' = [result EXCEPT !.message = MsgLogin]
            /\ pc' = "report"
            /\ UNCHANGED <<frame, steps>>
       ELSE /\ \E e \in Envs("wait_for_selector", 1) :
                 Call("wait_for_selector", InventoryListSel, 1, e)
            /\ steps' = Append(steps, "wait_marker")
            /\ pc' = "login_wait"
            /\ UNCHANGED result
    /\ UNCHANGED <<session, response, exc, shotNames, items, scanned, price, released, rc, exitCode>>

\* _login without the test of what wait_for_selector returned.
login_return_unchecked ==
    /\ pc = "login_wait" /\ status = "returned"
    /\ pc' = "scan"
    /\ UNCHANGED result
    /\ UNCHANGED <<session, frame, response, exc, shotNames, steps, items, scanned,
                   price, released, rc, exitCode>>

\* _login: if not wait_for_selector(...); execute: if not _login(...)
login_return ==
    /\ pc = "login_wait" /\ status = "returned"
    /\ IF ret = PyFalse
       THEN /\ result' = [result EXCEPT !.message = MsgLogin]
            /\ pc' = "report"
       ELSE /\ pc' = "scan"
            /\ UNCHANGED result
    /\ UNCHANGED <<session, frame, response, exc, shotNames, steps, items, scanned,
                   price, released, rc, exitCode>>

\* SauceDemoTask._get_product_price: r = 0, query_selector_all raises;
\* r in 1..Len(coll), an element call on item r raises if the loop gets
\* there; r = Len(coll) + 1, nothing raises.
_get_product_price ==
    /\ pc = "scan"
    /\ \E coll \in Collections, s \in ShotOutcomes :
         \E r \in 0..(Len(coll) + 1) :
           LET res == IF r = 0 THEN [kind |-> "raised", price |-> None]
                      ELSE ScanFrom(coll, 1, r)
           IN  /\ items' = IF r = 0 THEN <<>> ELSE coll
               /\ scanned' = res.kind
               /\ price' = res.price
               /\ op' = "_get_product_price"
               /\ env' = [NoEnv EXCEPT !.shot = IF res.kind = "raised" THEN s ELSE "ok"]
               /\ IF res.kind = "raised"
                  THEN /\ shotNames' = Append(shotNames, LabelProductSearchError)
                       /\ optrace' = <<"query_selector_all", "screenshot">>
                       /\ IF _take_screenshot(s) = "raised"
                          THEN status' = "raised" /\ exc' = "Exception"
                          ELSE status' = "idle" /\ UNCHANGED exc
                  ELSE /\ optrace' = <<"query_selector_all">>
                       /\ status' = "idle"
                       /\ UNCHANGED <<shotNames, exc>>
    /\ steps' = Append(steps, "scan")
    /\ pc' = "build"
    /\ UNCHANGED <<session, sel, retry, attempt, ret, response, result, released,
                   rc, exitCode>>

\* execute: if price: ... else: ...; return result
execute_result ==
    /\ pc = "build" /\ status # "raised"
    /\ IF Truthy(price)
       THEN result' = [success |-> TRUE, message |-> MsgFound,
                       data |-> [product |-> product_name, price |-> price]]
       ELSE result' = [result EXCEPT !.message = MsgNotFound]
    /\ pc' = "report"
    /\ UNCHANGED <<session, frame, response, exc, shotNames, steps, items, scanned,
                   price, released, rc, exitCode>>

\* main returning 0 whatever the result says.
main_report_zero ==
    /\ pc = "report"
    /\ rc' = 0
    /\ pc' = "exit"
    /\ UNCHANGED <<session, frame, exc, shotNames, task, released, exitCode>>

\* main: prints the result; return 0 if result["success"] else 1
main_report ==
    /\ pc = "report"
    /\ rc' = IF result.success THEN 0 ELSE 1
    /\ pc' = "exit"
    /\ UNCHANGED <<session, frame, exc, shotNames, task, released, exitCode>>

\* An exception a driver operation raised unwinds _login and execute, which
\* have no handler, and leaves the with block.
propagate ==
    /\ pc \in BodyPcs /\ status = "raised"
    /\ pc' = "exit"
    /\ UNCHANGED <<session, frame, exc, shotNames, task, released, rc, exitCode>>

\* KeyboardInterrupt delivered while the with block runs: no handler below
\* main() catches it (except Exception does not).
interrupt ==
    /\ pc \in BodyPcs /\ status # "raised"
    /\ exc' = "KeyboardInterrupt"
    /\ status' = "raised"
    /\ pc' = "exit"
    /\ UNCHANGED <<session, op, sel, retry, attempt, env, ret, optrace, shotNames,
                   task, released, rc, exitCode>>

\* The release calls of __exit__ when call failAt raises (0: none does):
\* each is made only if its handle is set, and nothing catches a raise.
ExitCalls(failAt) ==
    LET all == (IF session.context # "none" THEN <<"context.close">> ELSE <<>>)
               \o (IF session.browser # "none" THEN <<"browser.close">> ELSE <<>>)
               \o (IF session.playwright # "none" THEN <<"playwright.stop">> ELSE <<>>)
    IN  IF failAt = 0 THEN all ELSE SubSeq(all, 1, failAt)

\* PlaywrightDriver.__exit__, then the end of the with statement: __exit__
\* returns None, so an exception of the body goes on propagating; an
\* exception of a release call replaces it.
__exit__ ==
    /\ pc = "exit"
    /\ \E failAt \in 0..3, kind \in {"Exception", "KeyboardInterrupt"} :
         LET calls == ExitCalls(failAt)
             done == IF failAt = 0 THEN calls ELSE SubSeq(calls, 1, Len(calls) - 1)
             closed(c) == \E i \in 1..Len(done) : done[i] = c
             raised == IF failAt = 0 THEN exc ELSE kind
         IN  /\ released' = calls
             /\ session' = [playwright |-> IF closed("playwright.stop") THEN "closed"
                                           ELSE session.playwright,
                            browser |-> IF closed("browser.close") THEN "closed"
                                        ELSE session.browser,
                            context |-> IF closed("context.close") THEN "closed"
                                        ELSE session.context,
                            page |-> IF closed("context.close") THEN "closed"
                                     ELSE session.page]
             /\ exc' = raised
             /\ IF raised = "none"
                THEN pc' = "done" /\ exitCode' = rc
                ELSE pc' = "except" /\ UNCHANGED exitCode
    /\ UNCHANGED <<frame, shotNames, task, rc>>

\* main: except KeyboardInterrupt / except Exception, both return 1
main_except ==
    /\ pc = "except"
    /\ exc \in {"KeyboardInterrupt", "Exception"}
    /\ exitCode' = 1
    /\ pc' = "done"
    /\ UNCHANGED <<session, frame, exc, shotNames, task, released, rc>>

Init == pc = "start" /\ session = NoSession /\ InitCommon

Next ==
    \/ __enter__
    \/ execute_navigate
    \/ navigate
    \/ login_username
    \/ type_text_attempt
    \/ type_text_exhausted
    \/ login_password
    \/ login_click
    \/ click_attempt
    \/ click_exhausted
    \/ login_wait
    \/ wait_for_selector
    \/ login_return
    \/ _get_product_price
    \/ execute_result
    \/ main_report
    \/ propagate
    \/ interrupt
    \/ __exit__
    \/ main_except

Spec == Init /\ [][Next]_vars

\* main() is one synchronous thread: while a step of it can be taken, one
\* is taken (every page primitive returns or raises).
SpecLive == Init /\ [][Next]_vars /\ WF_vars(Next)

\* ============================================================ claims

\* The first attempt of the call, among attempts 1..n, on which the page
\* lets the action succeed; 0 when there is none.
FirstOk(att, n) ==
    IF \E k \in 1..n : att[k] = "ok"
    THEN CHOOSE k \in 1..n : att[k] = "ok" /\ \A j \in 1..(k - 1) : att[j] # "ok"
    ELSE 0

SuccessValue == IF op = "get_text" THEN env.text ELSE PyTrue
FailureValue == IF op = "get_text" THEN None ELSE PyFalse
Finished == status \in {"returned", "raised"}

\* C1: click, type_text and get_text called with retry N >= 1, the action
\* failing on attempts 1..k-1 and first succeeding on attempt k <= N: exactly
\* k attempts are made, none after the k-th, no screenshot is taken, and the
\* operation returns True (get_text: the extracted text).
C1_SuccessOnAttemptK ==
    (op \in RetryOps /\ retry >= 1 /\ FirstOk(env.att, retry) > 0) =>
        LET k == FirstOk(env.att, retry) IN
        /\ attempt <= k
        /\ Count(optrace, "wait_for_selector") = attempt
        /\ shotNames = <<>> /\ Count(optrace, "screenshot") = 0
        /\ (attempt = k) = Finished
        /\ Finished => /\ status = "returned"
                       /\ ret = SuccessValue
                       /\ optrace[Len(optrace)] \in {"click", "fill", "text_content"}

C1_Witness ==
    /\ op \in RetryOps /\ status = "returned" /\ retry = 3
    /\ FirstOk(env.att, retry) = 2 /\ attempt = 2
    /\ ret = SuccessValue

\* C2: click, type_text and get_text called with retry N >= 1, every attempt
\* failing by timeout or by another error: exactly N attempts are made, one
\* screenshot is requested, after the last attempt and not before, and the
\* operation returns False (get_text: None).
C2_AllAttemptsFail ==
    (op \in RetryOps /\ retry >= 1 /\ FirstOk(env.att, retry) = 0) =>
        /\ attempt <= retry
        /\ Count(optrace, "wait_for_selector") = attempt
        /\ Len(shotNames) = (IF attempt = retry THEN 1 ELSE 0)
        /\ Count(optrace, "screenshot") = Len(shotNames)
        /\ Finished => /\ status = "returned"
                       /\ attempt = retry
                       /\ ret = FailureValue
                       /\ optrace[Len(optrace)] = "screenshot"

C2_Witness ==
    /\ op \in RetryOps /\ status = "returned" /\ retry = 3 /\ attempt = 3
    /\ FirstOk(env.att, retry) = 0
    /\ \E i, j \in 1..3 : IsTimeout(env.att[i]) /\ ~IsTimeout(env.att[j])
    /\ Len(shotNames) = 1 /\ ret = FailureValue

\* C4: navigate requests the page load exactly once whatever the page does;
\* when the load fails, by timeout or by any other error, it requests one
\* screenshot and returns False.
C4_NavigateOnce ==
    (op = "navigate" /\ status # "idle") =>
        /\ Count(optrace, "goto") = attempt
        /\ attempt <= 1
        /\ Finished => /\ attempt = 1
                       /\ env.att[1] # "ok" =>
                            /\ status = "returned" /\ ret = PyFalse
                            /\ shotNames = <<LabelNavigationError>>
                            /\ optrace = <<"goto", "screenshot">>

C4_Witness ==
    /\ op = "navigate" /\ status = "returned" /\ env.att[1] = "error"
    /\ ret = PyFalse /\ Len(shotNames) = 1

\* execute() has returned its result to main().
ExecuteReturned == pc = "report" \/ rc # -1

\* C3: a page load that completes with an HTTP status >= 400 makes navigate
\* return False; the workflow then ends with success = false and the
\* navigation message, after one navigation and without any login step.
C3_BadStatusFails ==
    response >= 400 =>
        /\ op = "navigate" /\ ret = PyFalse
        /\ steps = <<"navigate">>
        /\ ExecuteReturned => (~result.success /\ result.message = MsgNavigate)

\* C5: whenever the with block of main() is left after __enter__ completed,
\* context.close, browser.close and playwright.stop are all called, in this
\* order, also when one of them raises.
C5_ReleaseAll ==
    (pc \in {"except", "done"} /\ session.page # "none") =>
        released = <<"context.close", "browser.close", "playwright.stop">>

\* C6: the result execute() returns has, when success is true, a non-empty
\* product and a non-empty price in data, and when success is false, empty
\* data and a non-empty message.
C6_OutcomeShape ==
    ExecuteReturned =>
        IF result.success
        THEN /\ DOMAIN result.data = {"product", "price"}
             /\ result.data.product \notin {"", None}
             /\ result.data.price \notin {"", None, NoElem}
        ELSE /\ DOMAIN result.data = {}
             /\ result.message # ""

C6_Witness ==
    /\ pc = "report" /\ scanned = "found" /\ price = ""
    /\ ~result.success /\ result.message = MsgNotFound

\* C7: no driver operation raises to its caller: when the page primitive
\* raises, by timeout or otherwise, the operation returns False (get_text:
\* None) and has requested a screenshot.
C7_NoOperationRaises ==
    (op \in RetryOps \cup SingleOps /\ Finished) =>
        /\ status = "returned"
        /\ (op \in SingleOps /\ env.att[1] # "ok") =>
               (ret = FailureValue /\ Len(shotNames) = 1)
        /\ (op \in RetryOps /\ retry >= 1 /\ FirstOk(env.att, retry) = 0) =>
               (ret = FailureValue /\ Len(shotNames) = 1)

\* C8: when the screenshot capture a failed operation requested raises, the
\* operation still returns False (get_text: None) and nothing is raised to
\* the caller.
C8_ScreenshotFailureSwallowed ==
    (op \in RetryOps \cup SingleOps /\ env.shot = "error"
       /\ Count(optrace, "screenshot") > 0) =>
        /\ status \in {"running", "returned"}
        /\ exc = "none"
        /\ status = "returned" => ret = FailureValue

C8_Witness ==
    /\ op = "click" /\ status = "returned" /\ env.shot = "error"
    /\ Count(optrace, "screenshot") = 1 /\ ret = PyFalse

\* C9: navigation, both fills and the login click having succeeded, a wait
\* for .inventory_list that times out gives success = false with the login
\* message; the collection is not scanned and the run requests exactly one
\* screenshot, the one of the failed wait.
C9_MarkerNeverAppears ==
    (op = "wait_for_selector" /\ sel = InventoryListSel /\ env.att[1] = "timeout"
       /\ status = "returned") =>
        /\ steps = <<"navigate", "type_user", "type_pass", "click_login", "wait_marker">>
        /\ ret = PyFalse
        /\ shotNames = <<LabelWaitTimeout>>
        /\ scanned = "none" /\ pc \notin {"scan", "build"}
        /\ ExecuteReturned =>
              /\ ~result.success /\ result.message = MsgLogin
              /\ DOMAIN result.data = {}

C9_Witness ==
    /\ pc = "report" /\ op = "wait_for_selector" /\ env.att[1] = "timeout"
    /\ result.message = MsgLogin /\ Len(shotNames) = 1

\* The first item of the collection whose name is the target, 0 if none.
FirstMatch(coll) ==
    IF \E i \in 1..Len(coll) : coll[i].name = product_name
    THEN CHOOSE i \in 1..Len(coll) :
           /\ coll[i].name = product_name
           /\ \A j \in 1..(i - 1) : coll[j].name # product_name
    ELSE 0

\* C10: after a successful login, an empty collection, a collection without
\* an item named as the target, and a collection whose matching item has no
\* price element all give success = false, empty data and the not-found
\* message, and no screenshot.
C10_NotFoundCases ==
    (pc = "report" /\ scanned \in {"found", "notfound"}
       /\ (FirstMatch(items) = 0 \/ items[FirstMatch(items)].price = NoElem)) =>
        /\ ~result.success
        /\ DOMAIN result.data = {}
        /\ result.message = MsgNotFound
        /\ shotNames = <<>>

\* C11: main() returns 0 exactly when execute() returned a result with
\* success = true and nothing was raised afterwards; it returns 1 for every
\* failure result, every KeyboardInterrupt and every other exception raised
\* in __enter__, in the workflow or in __exit__.
C11_ExitCode ==
    pc = "done" =>
        /\ exitCode \in {0, 1}
        /\ (exitCode = 0) = (ExecuteReturned /\ rc = 0 /\ result.success /\ exc = "none")
        /\ exc # "none" => exitCode = 1
        /\ (ExecuteReturned /\ ~result.success) => exitCode = 1

C11_Witness ==
    /\ pc = "done" /\ exitCode = 1
    /\ result.success /\ rc = 0
    /\ exc = "Exception" /\ released = <<"context.close", "browser.close">>

SafeChars ==
    {"a", "b", "c", "d", "e", "f", "g", "h", "i", "j", "k", "l", "m",
     "n", "o", "p", "q", "r", "s", "t", "u", "v", "w", "x", "y", "z",
     "A", "B", "C", "D", "E", "F", "G", "H", "I", "J", "K", "L", "M",
     "N", "O", "P", "Q", "R", "S", "T", "U", "V", "W", "X", "Y", "Z",
     "0", "1", "2", "3", "4", "5", "6", "7", "8", "9", "_", ".", "-"}

\* The part of a screenshot file name between "screenshot_" and the
\* "_<timestamp>.png" that ends it.
LabelPart(f) ==
    SubSeq(f, Len(FilePrefix) + 1, Len(f) - (1 + Len(Timestamp) + Len(FileSuffix)))

\* C12: in every screenshot file name the part between "screenshot_" and the
\* timestamp has only characters of [A-Za-z0-9_.-] and at most 120 of them,
\* whatever selector the label was built from.
C12_SanitizedLabel ==
    \A i \in 1..Len(shotNames) :
        LET part == LabelPart(Filename(shotNames[i], Timestamp)) IN
        /\ \A j \in 1..Len(part) : part[j] \in SafeChars
        /\ Len(part) <= 120

StepOrder == <<"navigate", "type_user", "type_pass", "click_login", "wait_marker", "scan">>

\* The message execute() gives when the step it called last fails.
StageMessage(name) ==
    CASE name = "navigate" -> MsgNavigate
      [] name \in {"type_user", "type_pass", "click_login", "wait_marker"} -> MsgLogin
      [] OTHER -> MsgNotFound

\* The step called last has reported failure to the workflow.
StepFailed ==
    \/ pc \in {"navigate", "login_user", "login_pass", "login_click", "login_wait"}
         /\ status = "returned" /\ ret = PyFalse
    \/ pc = "build" /\ status # "raised" /\ ~Truthy(price)

\* C13: the workflow calls navigate, fill username, fill password, click
\* login, wait for the marker, scan, in this order; once a step has reported
\* failure no later step is called and no page operation is issued, and the
\* message of the result names the stage of that step.
C13_OrderedShortCircuit ==
    [][/\ steps' = SubSeq(StepOrder, 1, Len(steps'))
       /\ StepFailed =>
            /\ steps' = steps /\ optrace' = optrace /\ shotNames' = shotNames
            /\ pc' \in {"report", "exit"}
            /\ pc' = "report" =>
                 /\ ~result'.success
                 /\ result'.message = StageMessage(steps[Len(steps)])
       /\ pc \in {"report", "exit", "except", "done"} =>
            /\ steps' = steps /\ optrace' = optrace /\ shotNames' = shotNames
            /\ result' = result]_vars

C13_Witness ==
    /\ pc = "report" /\ steps = <<"navigate", "type_user", "type_pass">>
    /\ ret = PyFalse /\ ~result.success /\ result.message = MsgLogin

\* C14: the value _get_product_price returns is decided by the first item of
\* the collection whose name equals the target: it is the price sub-field of
\* that item (None when the item has no price element, or when no item
\* matches), and no item after it has any influence.
C14_FirstMatchWins ==
    scanned \in {"found", "notfound"} =>
        LET fm == FirstMatch(items) IN
        price = IF fm = 0 \/ items[fm].price = NoElem THEN None ELSE items[fm].price

\* C15: in click, type_text and get_text a failed attempt that is not the
\* last is followed by a pause before the next attempt: the visibility wait
\* that opens an attempt after the first comes right after a sleep.
C15_PauseBetweenAttempts ==
    op \in RetryOps =>
        \A i \in 2..Len(optrace) :
            optrace[i] = "wait_for_selector" => optrace[i - 1] = "sleep"

\* C16: when main() returns, no engine, browser or context that was
\* acquired in __enter__ is left unreleased, also when a later acquisition
\* step of __enter__ raised.
C16_AcquiredIsReleased ==
    pc = "done" =>
        /\ session.playwright # "open"
        /\ session.browser # "open"
        /\ session.context # "open"

\* C17: every page operation of a run of main() (goto, wait_for_selector,
\* click, fill, query_selector_all, screenshot) is issued on a session whose
\* acquisition has completed and of which nothing has been released.
C17_PageOpsInsideSession ==
    [][(optrace' # optrace \/ shotNames' # shotNames) =>
          /\ session = OpenSession /\ session' = OpenSession
          /\ released = <<>> /\ released' = <<>>
          /\ pc \in BodyPcs]_vars

C17_Witness ==
    /\ pc = "login_click" /\ status = "returned"
    /\ optrace = <<"wait_for_selector", "click">>
    /\ session = OpenSession /\ released = <<>>

\* The attempts of the driver call in progress and the calls of the workflow
\* stay within their numbers: one page load, DefaultRetry attempts of a fill
\* or click, one marker wait, each step called once.
AttemptBounds ==
    /\ attempt <= (IF op \in RetryOps THEN DefaultRetry ELSE 1)
    /\ Count(optrace, "goto") <= 1
    /\ Count(optrace, "query_selector_all") <= 1
    /\ steps = SubSeq(StepOrder, 1, Len(steps))

\* C18: every run terminates: within the attempt bounds, main() eventually
\* returns an exit code, with the session released.
C18_TerminatesReleased ==
    /\ [](AttemptBounds)
    /\ <>(/\ pc = "done" /\ exitCode \in {0, 1}
          /\ session.playwright # "open"
          /\ session.browser # "open"
          /\ session.context # "open")

\* C19: one run of execute() requests at most one screenshot, and none when
\* it returns success = true or when the scan of the collection completed
\* without an exception.
C19_AtMostOneScreenshot ==
    /\ Len(shotNames) <= 1
    /\ (ExecuteReturned /\ result.success) => shotNames = <<>>
    /\ scanned \in {"found", "notfound"} => shotNames = <<>>

C19_Witness ==
    /\ pc = "report" /\ scanned = "raised"
    /\ shotNames = <<LabelProductSearchError>>
    /\ ~result.success

\* C20: click, type_text and get_text called with retry N <= 0 attempt no
\* page action, request no screenshot and return False (get_text: None).
C20_NoAttemptWithoutRetries ==
    (op \in RetryOps /\ retry <= 0) =>
        /\ attempt = 0
        /\ optrace = <<>>
        /\ shotNames = <<>>
        /\ Finished => (status = "returned" /\ ret = FailureValue /\ exc = "none")

C20_Witness ==
    /\ op = "click" /\ retry = -1 /\ status = "returned"
    /\ ret = PyFalse /\ optrace = <<>> /\ shotNames = <<>>

====
